---- MODULE Spec2Model ----
(***************************************************************************)
(* State-machine model of the process-grading edge function               *)
(* (supabase/functions/process-grading/index.ts, the handler at lines      *)
(* 1-208).  One handler instance is one request in flight; every `await`   *)
(* of the handler is a suspension point, so every action below is the      *)
(* continuation that runs when the awaited external call delivers its      *)
(* result.  The effect of an external call on the stores is taken at the   *)
(* instant its result is delivered.  External services (the session and    *)
(* extracted-text tables, the storage buckets, the Vision API, the         *)
(* generation API) answer nondeterministically with any of the results     *)
(* their client libraries can deliver.                                     *)
(*                                                                         *)
(* Every action is indexed by the handler instance it belongs to.  Spec    *)
(* serves the requests one after another (Slots has one instance); the     *)
(* stores persist from one request to the next.                            *)
(*                                                                         *)
(* SpecClient adds the browser client (FileUpload, GradingForm and the     *)
(* Index page): it starts from an empty grading_sessions table, and the    *)
(* requests the handler serves are the invocations the client issues for   *)
(* the rows it has inserted.  SpecPrompt starts the handler at the         *)
(* construction of the grading prompt, with texts around 2000 characters.  *)
(* SpecLive is Spec with every call in flight eventually returning.        *)
(* SpecPair has two handler instances in flight at the same time, each     *)
(* serving one request.                                                    *)
(*                                                                         *)
(* Texts are sequences of character codes.  A nullable value (the feedback *)
(* column, a response field, fullTextAnnotation) is a sequence of length   *)
(* zero (null / undefined) or one (the value).                             *)
(***************************************************************************)
EXTENDS Integers, Sequences, FiniteSets, TLC

\* ---------------------------------------------------------------- bounds
\* Number of grading_sessions rows present in the store.
NumSessions == 2
\* Total number of requests the handler receives in one behaviour.
MaxRequests == 2

\* How far beyond maxLength the longest extracted text of SpecPrompt goes.
MaxExcess == 3

\* Number of submissions with all three files the client of SpecClient makes.
MaxSubmissions == 1

\* --------------------------------------------------------- fixed universes
\* Handler instances that may be in flight at the same time.
Slots == {1}
SessionIds == 1..NumSessions
\* sessionId values a request body can carry: 0 is a falsy id, and
\* NumSessions + 1 is an id for which no grading_sessions row exists.
RequestIds == 0..(NumSessions + 1)
Docs == {"question_paper", "grading_rubric", "answer_sheet"}
EnvVars == {"SUPABASE_URL", "SUPABASE_SERVICE_ROLE_KEY", "GOOGLE_API_KEY"}

Null == <<>>
Some(v) == <<v>>

VARIABLES
    env,              \* environment variables that are set (Deno.env)
    sessions,         \* grading_sessions table: id -> [status, feedback]
    extracted_texts,  \* extracted_texts table: the rows, in insertion order
    nreq,             \* requests received so far
    pc,               \* per handler instance: the await it is suspended at
    reqNo,            \* per handler instance: which request it is serving
    sessionId,        \* per handler instance: the sessionId of the body
    reqMethod,        \* per handler instance: req.method
    issued,           \* per instance: external calls issued for this request
    ld,               \* per instance: the grading_sessions select call
    session,          \* per instance: the row the select returned
    dl,               \* per instance and document: storage download call
    ocr,              \* per instance and document: the Vision API's answer
    ex,               \* per instance and document: extractTextFromImage call
    ins,              \* per instance: the extracted_texts insert call
    prompt,           \* per instance: the prompt given to generateContent
    gr,               \* per instance: the generateContent call
    gradingResults,   \* per instance: result.response.text()
    upd,              \* per instance: the grading_sessions update call
    resp,             \* per instance: the Response returned
    \* the browser client: GradingForm, FileUpload and the Index page
    form,             \* GradingForm state: per document, whether a File is held
    widget,           \* FileUpload state file: per document, whether one is shown
    submitted,        \* latest submit event, if any: did it hold all files
    cpc,              \* the await Index.handleSubmit is suspended at
    isProcessing,     \* Index state isProcessing
    user,             \* handleSubmit: the user supabase.auth.getUser() gave
    up,               \* handleSubmit: per document, the uploadFile call
    newSession,       \* handleSubmit: id of the row the insert returned
    ninv,             \* process-grading invocations issued by the client
    gradingResponse,  \* handleSubmit: data of functions.invoke
    wb,               \* handleSubmit: the grading_sessions update call
    feedback,         \* Index state feedback
    showFeedback,     \* Index state showFeedback
    toasts,           \* title of the latest toast, if any
    location,         \* the route the browser shows
    nsub,             \* calls of Index.handleSubmit (onSubmit) so far
    storage,          \* the storage buckets: the blobs stored
    paths             \* grading_sessions path columns: id -> the blobs named

clientVars == <<form, widget, submitted, cpc, isProcessing, user, up,
                newSession, ninv, gradingResponse, wb, feedback, showFeedback,
                toasts, location, nsub, storage, paths>>

vars == <<env, sessions, extracted_texts, nreq, pc, reqNo, sessionId,
          reqMethod, issued, ld, session, dl, ocr, ex, ins, prompt, gr,
          gradingResults, upd, resp, clientVars>>

\* ------------------------------------------------------------ environment
DocCode(d) == CASE d = "question_paper" -> 1
                [] d = "grading_rubric" -> 2
                [] d = "answer_sheet" -> 3

\* The text the Vision API detects, when it answers successfully, in the
\* request made for document d of session s.  It detects none in the answer
\* sheet of an even session.
DocumentText(s, d) ==
    IF d = "answer_sheet" /\ s % 2 = 0 THEN <<>> ELSE <<DocCode(d), s>>

\* HTTP statuses the Vision API can answer with.
VisionStatuses == {200, 403, 500}

\* The HTTP response of the Vision API for a document: with status 200 a
\* body whose responses array is empty or holds one entry, which has a
\* fullTextAnnotation when text was detected; otherwise an error body.
VisionResponse(status, hasEntry, s, d) ==
    IF status # 200
      THEN [ok |-> FALSE, status |-> status, responses |-> <<>>]
    ELSE IF ~hasEntry
      THEN [ok |-> TRUE, status |-> 200, responses |-> <<>>]
    ELSE [ok |-> TRUE, status |-> 200,
          responses |-> << [fullTextAnnotation |->
                               IF DocumentText(s, d) = <<>> THEN Null
                               ELSE Some([text |-> DocumentText(s, d)])] >>]

\* The feedback text the generation service writes for request n.
FeedbackText(n) == <<100 + n>>

\* Outcomes of model.generateContent(...) followed by result.response.text():
\* the call is rejected, text() throws on a blocked response, text() returns
\* the empty string, or text() returns the feedback.
GeminiOutcomes == {"rejected", "blocked", "empty", "text"}

GeminiText(outcome, n) == IF outcome = "text" THEN FeedbackText(n) ELSE <<>>

\* ------------------------------------------------------------- responses
corsHeaders ==
    [AccessControlAllowOrigin |-> "*",
     AccessControlAllowHeaders |-> "authorization, x-client-info, apikey, content-type"]

NoResponse ==
    [status |-> 0, headers |-> corsHeaders, message |-> Null, results |-> Null,
     error |-> Null]

\* Variant: the pre-flight answer allows the caller's own origin only.
PreflightResponse_SameOrigin ==
    [status |-> 200,
     headers |-> [corsHeaders EXCEPT !.AccessControlAllowOrigin = "self"],
     message |-> Null, results |-> Null, error |-> Null]

\* new Response(null, { headers: corsHeaders }) for an OPTIONS request.
PreflightResponse ==
    [status |-> 200, headers |-> corsHeaders, message |-> Null, results |-> Null,
     error |-> Null]

SuccessResponse(results) ==
    [status |-> 200, headers |-> corsHeaders,
     message |-> Some("Grading completed successfully"),
     results |-> Some(results), error |-> Null]

\* Variant: the catch block answers with status 400.
ErrorResponse_BadRequest(msg, code) ==
    [status |-> 400, headers |-> corsHeaders, message |-> Null, results |-> Null,
     error |-> Some([message |-> msg, code |-> code])]

\* The catch block: the thrown error's message, status 500.
ErrorResponse(msg, code) ==
    [status |-> 500, headers |-> corsHeaders, message |-> Null, results |-> Null,
     error |-> Some([message |-> msg, code |-> code])]

\* ------------------------------------------------------------------ Init
NewSessionRow == [status |-> "pending", feedback |-> Null]

IdleCall == [d \in Docs |-> "idle"]

IdleExtraction ==
    [d \in Docs |-> [st |-> "idle", text |-> <<>>, msg |-> "", code |-> 0]]

\* Nothing issued yet: per document the downloads and extractTextFromImage
\* calls, and the generateContent calls, started for the current request.
NoCalls ==
    [download |-> [d \in Docs |-> 0], extract |-> [d \in Docs |-> 0],
     generate |-> 0]

\* No Vision API call has been answered.
NoVisionResponse == [d \in Docs |-> Null]

\* The blobs of one submission: uploadFile names each after a fresh UUID,
\* here the number n of the submission and the document.
Blobs(n) == {<<n, d>> : d \in Docs}

\* The page as mounted: no file chosen, no submission made.
ClientIdle ==
    /\ form = [d \in Docs |-> FALSE]
    /\ widget = [d \in Docs |-> FALSE]
    /\ nsub = 0
    /\ submitted = Null
    /\ cpc = "idle"
    /\ isProcessing = FALSE
    /\ user = Null
    /\ up = IdleCall
    /\ newSession = Null
    /\ ninv = 0
    /\ gradingResponse = Null
    /\ wb = "idle"
    /\ feedback = Null
    /\ showFeedback = FALSE
    /\ toasts = Null
    /\ location = "/"

Init ==
    /\ env \in {EnvVars} \cup {EnvVars \ {v} : v \in EnvVars}
    /\ sessions = [s \in SessionIds |-> NewSessionRow]
    /\ extracted_texts = <<>>
    /\ nreq = 0
    /\ pc = [i \in Slots |-> "idle"]
    /\ reqNo = [i \in Slots |-> 0]
    /\ sessionId = [i \in Slots |-> 0]
    /\ reqMethod = [i \in Slots |-> "none"]
    /\ issued = [i \in Slots |-> NoCalls]
    /\ ld = [i \in Slots |-> "idle"]
    /\ session = [i \in Slots |-> Null]
    /\ dl = [i \in Slots |-> IdleCall]
    /\ ex = [i \in Slots |-> IdleExtraction]
    /\ ins = [i \in Slots |-> "idle"]
    /\ prompt = [i \in Slots |-> Null]
    /\ gr = [i \in Slots |-> "idle"]
    /\ gradingResults = [i \in Slots |-> Null]
    /\ upd = [i \in Slots |-> "idle"]
    /\ resp = [i \in Slots |-> NoResponse]
    /\ ocr = [i \in Slots |-> NoVisionResponse]
    /\ storage = UNION {Blobs(s) : s \in SessionIds}
    /\ paths = [s \in SessionIds |-> Blobs(s)]
    /\ ClientIdle

\* ----------------------------------------------------------- the handler
\* An instance ends: the Response is returned to the caller.
Respond(i, r) ==
    /\ pc' = [pc EXCEPT ![i] = "done"]
    /\ resp' = [resp EXCEPT ![i] = r]

\* Variant: only the two store variables are required.
EnvComplete_StoreOnly ==
    /\ "SUPABASE_URL" \in env
    /\ "SUPABASE_SERVICE_ROLE_KEY" \in env

EnvComplete ==
    /\ "SUPABASE_URL" \in env
    /\ "SUPABASE_SERVICE_ROLE_KEY" \in env
    /\ "GOOGLE_API_KEY" \in env

\* serve(async (req) => ...), up to the first store call.
ServeRequest(i, method, bodyOk, id) ==
    /\ pc[i] \in {"idle", "done"}
    /\ nreq < MaxRequests
    /\ nreq' = nreq + 1
    /\ reqNo' = [reqNo EXCEPT ![i] = nreq + 1]
    /\ session' = [session EXCEPT ![i] = Null]
    /\ dl' = [dl EXCEPT ![i] = IdleCall]
    /\ ex' = [ex EXCEPT ![i] = IdleExtraction]
    /\ ins' = [ins EXCEPT ![i] = "idle"]
    /\ prompt' = [prompt EXCEPT ![i] = Null]
    /\ gr' = [gr EXCEPT ![i] = "idle"]
    /\ gradingResults' = [gradingResults EXCEPT ![i] = Null]
    /\ upd' = [upd EXCEPT ![i] = "idle"]
    /\ ocr' = [ocr EXCEPT ![i] = NoVisionResponse]
    /\ reqMethod' = [reqMethod EXCEPT ![i] = method]
    /\ issued' = [issued EXCEPT ![i] = NoCalls]
    /\ UNCHANGED <<env, sessions, extracted_texts, clientVars>>
    /\ IF method = "OPTIONS"
         THEN /\ Respond(i, PreflightResponse)
              /\ sessionId' = [sessionId EXCEPT ![i] = 0]
              /\ ld' = [ld EXCEPT ![i] = "idle"]
       ELSE IF ~bodyOk
         THEN /\ Respond(i, ErrorResponse("Unexpected end of JSON input", 0))
              /\ sessionId' = [sessionId EXCEPT ![i] = 0]
              /\ ld' = [ld EXCEPT ![i] = "idle"]
       ELSE IF id = 0
         THEN /\ Respond(i, ErrorResponse("No session ID provided", 0))
              /\ sessionId' = [sessionId EXCEPT ![i] = id]
              /\ ld' = [ld EXCEPT ![i] = "idle"]
       ELSE IF ~EnvComplete
         THEN /\ Respond(i, ErrorResponse("Missing required environment variables", 0))
              /\ sessionId' = [sessionId EXCEPT ![i] = id]
              /\ ld' = [ld EXCEPT ![i] = "idle"]
       ELSE /\ pc' = [pc EXCEPT ![i] = "load"]
            /\ resp' = [resp EXCEPT ![i] = NoResponse]
            /\ sessionId' = [sessionId EXCEPT ![i] = id]
            /\ ld' = [ld EXCEPT ![i] = "inflight"]

\* ------------------------------------------------- processGradingSession
\* Variant: sessionError is not inspected; the downloads are issued anyway.
SessionLoaded_Unchecked(i, dbError) ==
    /\ pc[i] = "load"
    /\ ld[i] = "inflight"
    /\ UNCHANGED <<env, sessions, extracted_texts, nreq, reqNo, sessionId,
                   reqMethod, ocr, ex, ins, prompt, gr, gradingResults, upd,
                   resp, clientVars>>
    /\ ld' = [ld EXCEPT ![i] =
                 IF dbError \/ sessionId[i] \notin DOMAIN sessions THEN "err" ELSE "ok"]
    /\ session' = [session EXCEPT ![i] =
                      IF dbError \/ sessionId[i] \notin DOMAIN sessions THEN Null
                      ELSE Some(sessions[sessionId[i]])]
    /\ pc' = [pc EXCEPT ![i] = "download"]
    /\ dl' = [dl EXCEPT ![i] = [d \in Docs |-> "inflight"]]
    /\ issued' = [issued EXCEPT ![i].download = [d \in Docs |-> @[d] + 1]]

\* The select('*').eq('id', sessionId).single() call returns.  sessionError
\* is set when no row has the id, or when the store fails.
SessionLoaded(i, dbError) ==
    /\ pc[i] = "load"
    /\ ld[i] = "inflight"
    /\ UNCHANGED <<env, sessions, extracted_texts, nreq, reqNo, sessionId,
                   reqMethod, ocr, ex, ins, prompt, gr, gradingResults, upd,
                   clientVars>>
    /\ IF dbError \/ sessionId[i] \notin DOMAIN sessions
         THEN /\ ld' = [ld EXCEPT ![i] = "err"]
              /\ Respond(i, ErrorResponse("Session not found", 0))
              /\ UNCHANGED <<session, dl, issued>>
         ELSE /\ ld' = [ld EXCEPT ![i] = "ok"]
              /\ session' = [session EXCEPT ![i] = Some(sessions[sessionId[i]])]
              /\ pc' = [pc EXCEPT ![i] = "download"]
              /\ dl' = [dl EXCEPT ![i] = [d \in Docs |-> "inflight"]]
              /\ issued' = [issued EXCEPT
                               ![i].download = [d \in Docs |-> @[d] + 1]]
              /\ UNCHANGED resp

\* Variant: the join fires as soon as one download has returned.
AllDownloaded_Any(calls) == \E d \in Docs : calls[d] \in {"blob", "null"}

\* Promise.all over the three download calls has resolved.
AllDownloaded(calls) == \A d \in Docs : calls[d] \in {"blob", "null"}

\* One storage download returns { data, error }; data is a Blob, or null on
\* failure.  Nothing inspects error or data.  When the last of the three
\* returns, the three extractTextFromImage calls are started.
DownloadReturns(i, d, data) ==
    /\ pc[i] = "download"
    /\ dl[i][d] = "inflight"
    /\ dl' = [dl EXCEPT ![i][d] = data]
    /\ UNCHANGED <<env, sessions, extracted_texts, nreq, reqNo, sessionId,
                   reqMethod, ld, session, ocr, ins, prompt, gr, gradingResults, upd,
                   resp, clientVars>>
    /\ IF AllDownloaded(dl'[i])
         THEN /\ pc' = [pc EXCEPT ![i] = "extract"]
              /\ ex' = [ex EXCEPT ![i] =
                            [e \in Docs |-> [st |-> "inflight", text |-> <<>>,
                                             msg |-> "", code |-> 0]]]
              /\ issued' = [issued EXCEPT
                               ![i].extract = [e \in Docs |-> @[e] + 1]]
         ELSE UNCHANGED <<pc, ex, issued>>

\* Variant (strict mode): an answer without detected text is an error.
extractTextFromImage_Strict(response) ==
    IF ~response.ok
      THEN [st |-> "err", text |-> <<>>,
            msg |-> "Failed to extract text: Vision API error", code |-> response.status]
    ELSE IF Len(response.responses) = 0
            \/ response.responses[1].fullTextAnnotation = Null
      THEN [st |-> "err", text |-> <<>>,
            msg |-> "Failed to extract text: No response data from Vision API", code |-> 0]
    ELSE [st |-> "ok", text |-> response.responses[1].fullTextAnnotation[1].text,
          msg |-> "", code |-> 0]

\* extractTextFromImage from the fetch's response to its return or throw.
extractTextFromImage(response) ==
    IF ~response.ok
      THEN [st |-> "err", text |-> <<>>,
            msg |-> "Failed to extract text: Vision API error", code |-> response.status]
    ELSE IF Len(response.responses) = 0
      THEN [st |-> "err", text |-> <<>>,
            msg |-> "Failed to extract text: No response data from Vision API", code |-> 0]
    ELSE [st |-> "ok",
          text |-> IF response.responses[1].fullTextAnnotation = Null THEN <<>>
                   ELSE response.responses[1].fullTextAnnotation[1].text,
          msg |-> "", code |-> 0]

\* Promise.all over the three extractTextFromImage calls has resolved.
AllExtracted(calls) == \A d \in Docs : calls[d].st = "ok"

\* The value processGradingSession returns.
extractedTexts(i) == [d \in Docs |-> ex[i][d].text]

\* The row given to from('extracted_texts').insert(...).
ExtractedTextRow(id, texts) ==
    [grading_session_id |-> id,
     question_paper_text |-> texts["question_paper"],
     grading_rubric_text |-> texts["grading_rubric"],
     answer_sheet_text |-> texts["answer_sheet"]]

\* Variant (Promise.allSettled): a failed extraction counts as an empty text
\* and the insert is issued once the three calls have settled.
VisionReturns_AllSettled(i, d, status, hasEntry) ==
    /\ pc[i] = "extract"
    /\ ex[i][d].st = "inflight"
    /\ ocr' = [ocr EXCEPT ![i][d] =
                   Some(VisionResponse(status, hasEntry, sessionId[i], d))]
    /\ ex' = [ex EXCEPT ![i][d] = extractTextFromImage(ocr'[i][d][1])]
    /\ UNCHANGED <<env, sessions, extracted_texts, nreq, reqNo, sessionId,
                   reqMethod, issued, ld, session, dl, prompt, gr,
                   gradingResults, upd, resp, clientVars>>
    /\ IF \A e \in Docs : ex'[i][e].st \in {"ok", "err"}
         THEN /\ pc' = [pc EXCEPT ![i] = "insert"]
              /\ ins' = [ins EXCEPT ![i] = "inflight"]
         ELSE UNCHANGED <<pc, ins>>

\* One Vision API call returns.  A throw rejects Promise.all, which the
\* handler's catch turns into the error response; the results of the calls
\* still in flight are then never read.  When the last one succeeds the
\* extracted_texts insert is issued.
VisionReturns(i, d, status, hasEntry) ==
    /\ pc[i] = "extract"
    /\ ex[i][d].st = "inflight"
    /\ ocr' = [ocr EXCEPT ![i][d] =
                   Some(VisionResponse(status, hasEntry, sessionId[i], d))]
    /\ ex' = [ex EXCEPT ![i][d] = extractTextFromImage(ocr'[i][d][1])]
    /\ UNCHANGED <<env, sessions, extracted_texts, nreq, reqNo, sessionId,
                   reqMethod, issued, ld, session, dl, prompt, gr,
                   gradingResults, upd, clientVars>>
    /\ IF ex'[i][d].st = "err"
         THEN /\ Respond(i, ErrorResponse(ex'[i][d].msg, ex'[i][d].code))
              /\ UNCHANGED ins
       ELSE IF AllExtracted(ex'[i])
         THEN /\ pc' = [pc EXCEPT ![i] = "insert"]
              /\ ins' = [ins EXCEPT ![i] = "inflight"]
              /\ UNCHANGED resp
       ELSE UNCHANGED <<pc, ins, resp>>

\* ---------------------------------------------- serve handler, continued
\* The template literal given to model.generateContent: the three texts as
\* the handler embeds them.
GradingPrompt(texts) ==
    [questionPaper |-> texts["question_paper"],
     gradingRubric |-> texts["grading_rubric"],
     answerSheet |-> texts["answer_sheet"]]

\* The extracted_texts insert returns.  Its result is not read: the handler
\* goes on to build the prompt and calls generateContent.
InsertReturns(i, ok) ==
    /\ pc[i] = "insert"
    /\ ins[i] = "inflight"
    /\ ins' = [ins EXCEPT ![i] = IF ok THEN "ok" ELSE "err"]
    /\ extracted_texts' =
          IF ok THEN Append(extracted_texts,
                            ExtractedTextRow(sessionId[i], extractedTexts(i)))
          ELSE extracted_texts
    /\ prompt' = [prompt EXCEPT ![i] = Some(GradingPrompt(extractedTexts(i)))]
    /\ gr' = [gr EXCEPT ![i] = "inflight"]
    /\ issued' = [issued EXCEPT ![i].generate = @ + 1]
    /\ pc' = [pc EXCEPT ![i] = "grade"]
    /\ UNCHANGED <<env, sessions, nreq, reqNo, sessionId, reqMethod, ld,
                   session, dl, ocr, ex, gradingResults, upd, resp, clientVars>>

\* generateContent returns and result.response.text() is evaluated.  A
\* rejected call and a throwing text() both reach the catch block; any
\* returned string, the empty one included, goes into the session update.
GeminiReturns(i, outcome) ==
    /\ pc[i] = "grade"
    /\ gr[i] = "inflight"
    /\ UNCHANGED <<env, sessions, extracted_texts, nreq, reqNo, sessionId,
                   reqMethod, issued, ld, session, dl, ocr, ex, ins, prompt,
                   clientVars>>
    /\ IF outcome = "rejected"
         THEN /\ gr' = [gr EXCEPT ![i] = "err"]
              /\ Respond(i, ErrorResponse("GoogleGenerativeAI Error: fetch failed", 0))
              /\ UNCHANGED <<gradingResults, upd>>
       ELSE IF outcome = "blocked"
         THEN /\ gr' = [gr EXCEPT ![i] = "err"]
              /\ Respond(i, ErrorResponse("GoogleGenerativeAI Error: response was blocked", 0))
              /\ UNCHANGED <<gradingResults, upd>>
       ELSE /\ gr' = [gr EXCEPT ![i] = "ok"]
            /\ gradingResults' =
                  [gradingResults EXCEPT ![i] = Some(GeminiText(outcome, reqNo[i]))]
            /\ upd' = [upd EXCEPT ![i] = "inflight"]
            /\ pc' = [pc EXCEPT ![i] = "update"]
            /\ UNCHANGED resp

\* Variant: the update sets the status only.
SessionUpdate_StatusOnly(row, results) == [row EXCEPT !.status = "completed"]

\* Variant: the update leaves a row alone that is already completed.
SessionUpdate_Once(row, results) ==
    IF row.status = "completed" THEN row
    ELSE [row EXCEPT !.status = "completed", !.feedback = Some(results)]

\* Variant: the update stores the text with a line feed appended.
SessionUpdate_Reformatted(row, results) ==
    [row EXCEPT !.status = "completed", !.feedback = Some(results \o <<10>>)]

\* update({ status: 'completed', feedback: gradingResults }) applied to a row.
SessionUpdate(row, results) ==
    [row EXCEPT !.status = "completed", !.feedback = Some(results)]

\* Variant: the update has no .eq('id', sessionId) filter and is applied to
\* every row.
UpdateReturns_AllRows(i, ok) ==
    /\ pc[i] = "update"
    /\ upd[i] = "inflight"
    /\ upd' = [upd EXCEPT ![i] = IF ok THEN "ok" ELSE "err"]
    /\ sessions' =
          IF ok THEN [s \in DOMAIN sessions |->
                         SessionUpdate(sessions[s], gradingResults[i][1])]
          ELSE sessions
    /\ Respond(i, SuccessResponse(gradingResults[i][1]))
    /\ UNCHANGED <<env, extracted_texts, nreq, reqNo, sessionId, reqMethod,
                   issued, ld, session, dl, ocr, ex, ins, prompt, gr,
                   gradingResults, clientVars>>

\* Variant: the update is conditional on the row being as it was loaded, and
\* the invocation fails when another one completed the session meanwhile.
UpdateReturns_Guarded(i, ok) ==
    /\ pc[i] = "update"
    /\ upd[i] = "inflight"
    /\ UNCHANGED <<env, extracted_texts, nreq, reqNo, sessionId, reqMethod,
                   issued, ld, session, dl, ocr, ex, ins, prompt, gr,
                   gradingResults, clientVars>>
    /\ IF ok /\ sessions[sessionId[i]] = session[i][1]
         THEN /\ upd' = [upd EXCEPT ![i] = "ok"]
              /\ sessions' = [sessions EXCEPT ![sessionId[i]] =
                                  SessionUpdate(@, gradingResults[i][1])]
              /\ Respond(i, SuccessResponse(gradingResults[i][1]))
         ELSE /\ upd' = [upd EXCEPT ![i] = "err"]
              /\ sessions' = sessions
              /\ Respond(i, ErrorResponse("Session was modified", 0))

\* The grading_sessions update returns.  Its result is not read: the
\* handler returns the success response.
UpdateReturns(i, ok) ==
    /\ pc[i] = "update"
    /\ upd[i] = "inflight"
    /\ upd' = [upd EXCEPT ![i] = IF ok THEN "ok" ELSE "err"]
    /\ sessions' =
          IF ok /\ sessionId[i] \in DOMAIN sessions
            THEN [sessions EXCEPT ![sessionId[i]] =
                      SessionUpdate(@, gradingResults[i][1])]
          ELSE sessions
    /\ Respond(i, SuccessResponse(gradingResults[i][1]))
    /\ UNCHANGED <<env, extracted_texts, nreq, reqNo, sessionId, reqMethod,
                   issued, ld, session, dl, ocr, ex, ins, prompt, gr,
                   gradingResults, clientVars>>

Next ==
    \E i \in Slots :
        \/ \E method \in {"OPTIONS", "POST"}, bodyOk \in BOOLEAN, id \in RequestIds :
              ServeRequest(i, method, bodyOk, id)
        \/ \E dbError \in BOOLEAN : SessionLoaded(i, dbError)
        \/ \E d \in Docs, data \in {"blob", "null"} : DownloadReturns(i, d, data)
        \/ \E d \in Docs, status \in VisionStatuses, hasEntry \in BOOLEAN :
              VisionReturns(i, d, status, hasEntry)
        \/ \E ok \in BOOLEAN : InsertReturns(i, ok)
        \/ \E outcome \in GeminiOutcomes : GeminiReturns(i, outcome)
        \/ \E ok \in BOOLEAN : UpdateReturns(i, ok)

Spec == Init /\ [][Next]_vars

\* Every external call that is in flight eventually delivers a result or an
\* error: the select, each download, each Vision API call whose result is
\* still awaited, the insert, the generation call and the update.  Nothing
\* obliges a further request to arrive.
CallsReturn ==
    \A i \in Slots :
        /\ WF_vars(\E dbError \in BOOLEAN : SessionLoaded(i, dbError))
        /\ \A d \in Docs :
              /\ WF_vars(\E data \in {"blob", "null"} : DownloadReturns(i, d, data))
              /\ WF_vars(\E status \in VisionStatuses, hasEntry \in BOOLEAN :
                            VisionReturns(i, d, status, hasEntry))
        /\ WF_vars(\E ok \in BOOLEAN : InsertReturns(i, ok))
        /\ WF_vars(\E outcome \in GeminiOutcomes : GeminiReturns(i, outcome))
        /\ WF_vars(\E ok \in BOOLEAN : UpdateReturns(i, ok))

SpecLive == Init /\ [][Next]_vars /\ CallsReturn

\* ------------------------------------------------------------ the client
\* The browser client: FileUpload widgets inside GradingForm inside the
\* Index page.  GradingForm.handleSubmit awaits Index.handleSubmit
\* (onSubmit), whose awaits are: auth.getUser, the Promise.all of the
\* uploads, the grading_sessions insert, functions.invoke and the
\* write-back update.  GradingForm passes exactly the three required files.
clientLocals == <<user, up, newSession, gradingResponse, wb>>

handlerVars == <<env, extracted_texts, nreq, pc, reqNo, sessionId, reqMethod,
                 issued, ld, session, dl, ocr, ex, ins, prompt, gr,
                 gradingResults, upd, resp>>

\* Results of one storage upload: a path, an uploadError, or no path.
UploadResults == {"path", "error", "nopath"}

\* FileUpload.handleFileChange: setFile(selectedFile) in the widget and
\* onChange(selectedFile), the form's setter for d.  The selection is a
\* File, or null when the dialog yields none.  The model has the user choose
\* files between submissions.
handleFileChange(d, file) ==
    /\ location = "/"
    /\ cpc = "idle"
    /\ <<form[d], widget[d]>> # <<file, file>>
    /\ form' = [form EXCEPT ![d] = file]
    /\ widget' = [widget EXCEPT ![d] = file]
    /\ UNCHANGED <<handlerVars, sessions, submitted, cpc, isProcessing,
                   clientLocals, ninv, feedback, showFeedback, toasts, location,
                   nsub, storage, paths>>

\* FileUpload.handleDrop: the dropped file is taken, by the widget and by the
\* form, only when its type matches the accept pattern.
handleDrop(d, matches) ==
    /\ location = "/"
    /\ cpc = "idle"
    /\ form' = IF matches THEN [form EXCEPT ![d] = TRUE] ELSE form
    /\ widget' = IF matches THEN [widget EXCEPT ![d] = TRUE] ELSE widget
    /\ UNCHANGED <<handlerVars, sessions, submitted, cpc, isProcessing,
                   clientLocals, ninv, feedback, showFeedback, toasts, location,
                   nsub, storage, paths>>

\* GradingForm.handleSubmit up to the first await of Index.handleSubmit:
\* it returns at once when a file is missing, and otherwise calls onSubmit,
\* which sets isProcessing and calls auth.getUser.  The submit button is
\* disabled while isProcessing is set.
handleSubmit ==
    /\ location = "/"
    /\ ~isProcessing
    /\ submitted' = Some(\A d \in Docs : form[d])
    /\ UNCHANGED <<handlerVars, sessions, form, widget, ninv, feedback,
                   showFeedback, toasts, location, storage, paths>>
    /\ IF \E d \in Docs : ~form[d]
         THEN UNCHANGED <<cpc, isProcessing, clientLocals, nsub>>
         ELSE /\ nsub < MaxSubmissions
              /\ nsub' = nsub + 1
              /\ isProcessing' = TRUE
              /\ cpc' = "auth"
              /\ user' = Null
              /\ up' = IdleCall
              /\ newSession' = Null
              /\ gradingResponse' = Null
              /\ wb' = "idle"

\* Index.handleSubmit returns (finally: setIsProcessing(false)) and
\* GradingForm.handleSubmit, resumed, resets its three files.
SubmissionEnds ==
    /\ cpc' = "idle"
    /\ isProcessing' = FALSE
    /\ form' = [d \in Docs |-> FALSE]

\* Variant: no finally block; isProcessing is left as it is.
SubmissionFails_NoFinally ==
    /\ toasts' = Some("Error")
    /\ cpc' = "idle"
    /\ form' = [d \in Docs |-> FALSE]
    /\ UNCHANGED isProcessing

\* The catch block of Index.handleSubmit.
SubmissionFails ==
    /\ toasts' = Some("Error")
    /\ SubmissionEnds

\* Variant: the uploads are started whether or not a user exists.
AuthReturns_Unchecked(hasUser) ==
    /\ cpc = "auth"
    /\ user' = IF hasUser THEN Some("user") ELSE Null
    /\ up' = [d \in Docs |-> "inflight"]
    /\ cpc' = "upload"
    /\ UNCHANGED <<handlerVars, sessions, form, submitted, isProcessing,
                   newSession, ninv, gradingResponse, wb, feedback,
                   showFeedback, toasts, location, widget, nsub,
                   storage, paths>>

\* supabase.auth.getUser() returns.  Without a user: navigate('/auth') and
\* return.  With one: the three uploadFile calls are started.
AuthReturns(hasUser) ==
    /\ cpc = "auth"
    /\ UNCHANGED <<handlerVars, sessions, submitted, newSession, ninv,
                   gradingResponse, wb, feedback, showFeedback, toasts,
                   widget, nsub, storage, paths>>
    /\ IF hasUser
         THEN /\ user' = Some("user")
              /\ up' = [d \in Docs |-> "inflight"]
              /\ cpc' = "upload"
              /\ UNCHANGED <<form, isProcessing, location>>
         ELSE /\ user' = Null
              /\ location' = "/auth"
              /\ SubmissionEnds
              /\ UNCHANGED up

\* Variant: the join fires as soon as one upload has returned a path.
AllUploaded_Any(calls) == \E d \in Docs : calls[d] = "path"

\* Promise.all over the uploadFile calls has resolved: each returned a path.
AllUploaded(calls) == \A d \in Docs : calls[d] = "path"

\* Variant: a failed upload removes the blobs its submission has stored.
UploadReturns_CleanUp(d, result) ==
    /\ cpc = "upload"
    /\ up[d] = "inflight"
    /\ up' = [up EXCEPT ![d] = result]
    /\ storage' = IF result = "path" THEN storage \cup {<<nsub, d>>}
                  ELSE storage \ Blobs(nsub)
    /\ UNCHANGED <<handlerVars, sessions, submitted, user, newSession, ninv,
                   gradingResponse, wb, feedback, showFeedback, location,
                   widget, nsub, paths>>
    /\ IF result # "path"
         THEN SubmissionFails
       ELSE IF AllUploaded(up')
         THEN /\ cpc' = "insert"
              /\ UNCHANGED <<form, isProcessing, toasts>>
       ELSE UNCHANGED <<cpc, form, isProcessing, toasts>>

\* One uploadFile call returns.  A returned path names the blob now stored.
\* uploadError or a missing path throws, which rejects Promise.all and
\* reaches the catch block; the uploads still in flight are then never
\* looked at.  When the last one returns its path the grading_sessions
\* insert is issued.
UploadReturns(d, result) ==
    /\ cpc = "upload"
    /\ up[d] = "inflight"
    /\ up' = [up EXCEPT ![d] = result]
    /\ storage' = IF result = "path" THEN storage \cup {<<nsub, d>>}
                  ELSE storage
    /\ UNCHANGED <<handlerVars, sessions, submitted, user, newSession, ninv,
                   gradingResponse, wb, feedback, showFeedback, location,
                   widget, nsub, paths>>
    /\ IF result # "path"
         THEN SubmissionFails
       ELSE IF AllUploaded(up')
         THEN /\ cpc' = "insert"
              /\ UNCHANGED <<form, isProcessing, toasts>>
       ELSE UNCHANGED <<cpc, form, isProcessing, toasts>>

\* The grading_sessions insert(...).select().single() returns; the row
\* records the paths of the three uploads.  sessionError or a missing row
\* throws; otherwise functions.invoke is called with the new row's id.
SessionInserted(ok) ==
    /\ cpc = "insert"
    /\ UNCHANGED <<handlerVars, submitted, user, up, gradingResponse, wb,
                   feedback, showFeedback, location, widget, nsub,
                   storage>>
    /\ IF ok
         THEN /\ sessions' = Append(sessions, NewSessionRow)
              /\ paths' = Append(paths, Blobs(nsub))
              /\ newSession' = Some(Len(sessions) + 1)
              /\ ninv' = ninv + 1
              /\ cpc' = "invoke"
              /\ UNCHANGED <<form, isProcessing, toasts>>
         ELSE /\ SubmissionFails
              /\ UNCHANGED <<sessions, paths, newSession, ninv>>

\* The request of functions.invoke('process-grading', { body: { sessionId } })
\* reaches the edge function.
InvokeProcessGrading(i) ==
    /\ cpc = "invoke"
    /\ nreq < ninv
    /\ ServeRequest(i, "POST", TRUE, newSession[1])

\* Variant: the write-back stores the feedback and leaves the status alone.
WriteBack_FeedbackOnly(row, results) == [row EXCEPT !.feedback = Some(results)]

\* Variant: the write-back stores the feedback with a line feed appended.
WriteBack_Reformatted(row, results) ==
    [row EXCEPT !.feedback = Some(results \o <<10>>), !.status = "completed"]

\* Variant: the write-back stores the feedback and queues the row again.
WriteBack_Requeue(row, results) ==
    [row EXCEPT !.feedback = Some(results), !.status = "pending"]

\* update({ feedback: gradingResponse.results, status: 'completed' }) applied
\* to a row.
WriteBack(row, results) ==
    [row EXCEPT !.feedback = Some(results), !.status = "completed"]

\* functions.invoke returns the handler's Response.  A status other than
\* 2xx is a processingError, which is thrown.  Otherwise data is the body;
\* when data.results is truthy it is shown and the write-back is issued,
\* and when it is not the success toast ends the submission.
InvokeReturns(i) ==
    /\ cpc = "invoke"
    /\ nreq = ninv
    /\ pc[i] = "done"
    /\ reqNo[i] = ninv
    /\ UNCHANGED <<handlerVars, sessions, submitted, user, up, newSession,
                   ninv, location, widget, nsub, storage, paths>>
    /\ IF resp[i].status # 200
         THEN /\ SubmissionFails
              /\ UNCHANGED <<gradingResponse, wb, feedback, showFeedback>>
         ELSE /\ gradingResponse' =
                    Some([message |-> resp[i].message, results |-> resp[i].results])
              /\ IF resp[i].results # Null /\ resp[i].results[1] # <<>>
                   THEN /\ feedback' = resp[i].results
                        /\ showFeedback' = TRUE
                        /\ wb' = "inflight"
                        /\ cpc' = "writeback"
                        /\ UNCHANGED <<form, isProcessing, toasts>>
                   ELSE /\ toasts' = Some("Grading completed")
                        /\ SubmissionEnds
                        /\ UNCHANGED <<wb, feedback, showFeedback>>

\* The write-back update returns.  Its result is not read: the success toast
\* is shown and the submission ends.
WriteBackReturns(ok) ==
    /\ cpc = "writeback"
    /\ wb = "inflight"
    /\ wb' = IF ok THEN "ok" ELSE "err"
    /\ sessions' =
          IF ok THEN [sessions EXCEPT ![newSession[1]] =
                          WriteBack(@, gradingResponse[1].results[1])]
          ELSE sessions
    /\ toasts' = Some("Grading completed")
    /\ SubmissionEnds
    /\ UNCHANGED <<handlerVars, submitted, user, up, newSession, ninv,
                   gradingResponse, feedback, showFeedback, location,
                   widget, nsub, storage, paths>>

\* The page freshly mounted, the grading_sessions table empty.
InitClient ==
    /\ env \in {EnvVars} \cup {EnvVars \ {v} : v \in EnvVars}
    /\ sessions = <<>>
    /\ extracted_texts = <<>>
    /\ nreq = 0
    /\ pc = [i \in Slots |-> "idle"]
    /\ reqNo = [i \in Slots |-> 0]
    /\ sessionId = [i \in Slots |-> 0]
    /\ reqMethod = [i \in Slots |-> "none"]
    /\ issued = [i \in Slots |-> NoCalls]
    /\ ld = [i \in Slots |-> "idle"]
    /\ session = [i \in Slots |-> Null]
    /\ dl = [i \in Slots |-> IdleCall]
    /\ ex = [i \in Slots |-> IdleExtraction]
    /\ ins = [i \in Slots |-> "idle"]
    /\ prompt = [i \in Slots |-> Null]
    /\ gr = [i \in Slots |-> "idle"]
    /\ gradingResults = [i \in Slots |-> Null]
    /\ upd = [i \in Slots |-> "idle"]
    /\ resp = [i \in Slots |-> NoResponse]
    /\ ocr = [i \in Slots |-> NoVisionResponse]
    /\ storage = {}
    /\ paths = <<>>
    /\ ClientIdle

\* Statuses of the Vision API in SpecClient: an answer with the detected
\* text, or a server error.
ClientVisionStatuses == {200, 500}

\* The client and the edge function it invokes.  The client sees of an
\* invocation its response and the row it leaves; here the storage delivers
\* every blob it is asked for and the Vision API answers as
\* ClientVisionStatuses says, while every store call, the user lookup, the
\* uploads and the generation call keep all their outcomes.
NextClient ==
    \/ \E d \in Docs, file \in BOOLEAN : handleFileChange(d, file)
    \/ \E d \in Docs, matches \in BOOLEAN : handleDrop(d, matches)
    \/ handleSubmit
    \/ \E hasUser \in BOOLEAN : AuthReturns(hasUser)
    \/ \E d \in Docs, result \in UploadResults : UploadReturns(d, result)
    \/ \E ok \in BOOLEAN : SessionInserted(ok)
    \/ \E ok \in BOOLEAN : WriteBackReturns(ok)
    \/ \E i \in Slots :
          \/ InvokeProcessGrading(i)
          \/ InvokeReturns(i)
          \/ \E dbError \in BOOLEAN : SessionLoaded(i, dbError)
          \/ \E d \in Docs : DownloadReturns(i, d, "blob")
          \/ \E d \in Docs, status \in ClientVisionStatuses :
                VisionReturns(i, d, status, TRUE)
          \/ \E ok \in BOOLEAN : InsertReturns(i, ok)
          \/ \E outcome \in GeminiOutcomes : GeminiReturns(i, outcome)
          \/ \E ok \in BOOLEAN : UpdateReturns(i, ok)

SpecClient == InitClient /\ [][NextClient]_vars

\* ------------------------------------------------- prompt construction
\* truncateText's default maxLength.
maxLength == 2000

Ellipsis == <<46, 46, 46>>

\* truncateText(text), as the earlier version of the handler defines it; the
\* handler of index.ts has no such function and does not call one.
truncateText(text) ==
    IF Len(text) > maxLength THEN SubSeq(text, 1, maxLength) \o Ellipsis ELSE text

\* Extracted texts around the documented maximum length.
TextOfLength(n) == [k \in 1..n |-> 97 + (k % 5)]

PromptTexts ==
    { TextOfLength(n) :
        n \in {0, 1, maxLength - 1, maxLength, maxLength + 1, maxLength + MaxExcess} }

\* The handler suspended at the extracted_texts insert of its first request,
\* the three extractions having returned texts of PromptTexts.
InitPrompt ==
    /\ env = EnvVars
    /\ sessions = [s \in SessionIds |-> NewSessionRow]
    /\ extracted_texts = <<>>
    /\ nreq = 1
    /\ pc = [i \in Slots |-> "insert"]
    /\ reqNo = [i \in Slots |-> 1]
    /\ sessionId = [i \in Slots |-> 1]
    /\ reqMethod = [i \in Slots |-> "POST"]
    /\ issued = [i \in Slots |->
                   [NoCalls EXCEPT !.download = [d \in Docs |-> 1],
                                   !.extract = [d \in Docs |-> 1]]]
    /\ ld = [i \in Slots |-> "ok"]
    /\ session = [i \in Slots |-> Some(NewSessionRow)]
    /\ dl = [i \in Slots |-> [d \in Docs |-> "blob"]]
    /\ \E q \in PromptTexts, r \in PromptTexts, a \in PromptTexts :
          ex = [i \in Slots |->
                  [d \in Docs |->
                     [st |-> "ok",
                      text |-> CASE d = "question_paper" -> q
                                 [] d = "grading_rubric" -> r
                                 [] d = "answer_sheet" -> a,
                      msg |-> "", code |-> 0]]]
    /\ ins = [i \in Slots |-> "inflight"]
    /\ prompt = [i \in Slots |-> Null]
    /\ gr = [i \in Slots |-> "idle"]
    /\ gradingResults = [i \in Slots |-> Null]
    /\ upd = [i \in Slots |-> "idle"]
    /\ resp = [i \in Slots |-> NoResponse]
    /\ ocr = [i \in Slots |-> NoVisionResponse]
    /\ storage = UNION {Blobs(s) : s \in SessionIds}
    /\ paths = [s \in SessionIds |-> Blobs(s)]
    /\ ClientIdle

NextPrompt == \E i \in Slots : \E ok \in BOOLEAN : InsertReturns(i, ok)

SpecPrompt == InitPrompt /\ [][NextPrompt]_vars

\* -------------------------------------------------- concurrent invocations
\* Two handler instances in flight at the same time, each serving one POST
\* request for an existing session; the two requests may name the same
\* session or different ones.  The isolate keeps no state between requests:
\* the instances share the two tables and nothing else.
Pair == {1, 2}

\* Results the Vision API and the generation service deliver in SpecPair.
PairVisionStatuses == {200, 500}

PairGeminiOutcomes == {"rejected", "text"}

InitPair ==
    /\ env = EnvVars
    /\ sessions = [s \in SessionIds |-> NewSessionRow]
    /\ extracted_texts = <<>>
    /\ nreq = 0
    /\ pc = [i \in Pair |-> "idle"]
    /\ reqNo = [i \in Pair |-> 0]
    /\ sessionId = [i \in Pair |-> 0]
    /\ reqMethod = [i \in Pair |-> "none"]
    /\ issued = [i \in Pair |-> NoCalls]
    /\ ld = [i \in Pair |-> "idle"]
    /\ session = [i \in Pair |-> Null]
    /\ dl = [i \in Pair |-> IdleCall]
    /\ ex = [i \in Pair |-> IdleExtraction]
    /\ ins = [i \in Pair |-> "idle"]
    /\ prompt = [i \in Pair |-> Null]
    /\ gr = [i \in Pair |-> "idle"]
    /\ gradingResults = [i \in Pair |-> Null]
    /\ upd = [i \in Pair |-> "idle"]
    /\ resp = [i \in Pair |-> NoResponse]
    /\ ocr = [i \in Pair |-> NoVisionResponse]
    /\ storage = UNION {Blobs(s) : s \in SessionIds}
    /\ paths = [s \in SessionIds |-> Blobs(s)]
    /\ ClientIdle

\* Instance i receives its request, a POST carrying the id of a session.
ServePair(i, id) ==
    /\ pc[i] = "idle"
    /\ ServeRequest(i, "POST", TRUE, id)

NextPair ==
    \E i \in Pair :
        \/ \E id \in SessionIds : ServePair(i, id)
        \/ \E dbError \in BOOLEAN : SessionLoaded(i, dbError)
        \/ \E d \in Docs : DownloadReturns(i, d, "blob")
        \/ \E d \in Docs, status \in PairVisionStatuses :
              VisionReturns(i, d, status, TRUE)
        \/ \E ok \in BOOLEAN : InsertReturns(i, ok)
        \/ \E outcome \in PairGeminiOutcomes : GeminiReturns(i, outcome)
        \/ \E ok \in BOOLEAN : UpdateReturns(i, ok)

SpecPair == InitPair /\ [][NextPair]_vars

\* ======================================================================
\* Properties
\* ======================================================================
\* Some stage of instance i has failed: the select, a download, an
\* extraction, the extracted_texts insert or the grading call.
StageFailed(i) ==
    \/ ld[i] = "err"
    \/ \E d \in Docs : dl[i][d] = "null"
    \/ \E d \in Docs : ex[i][d].st = "err"
    \/ ins[i] = "err"
    \/ gr[i] = "err"

\* The instance answered with status 500 and an error message.
AnsweredError(i) ==
    /\ pc[i] = "done"
    /\ resp[i].status = 500
    /\ resp[i].error # Null

\* The row the instance loaded as pending is still pending, without feedback.
StillPending(i) ==
    (session[i] # Null /\ session[i][1].status = "pending") =>
        /\ sessions[sessionId[i]].status = "pending"
        /\ sessions[sessionId[i]].feedback = Null

\* The three documents of instance i downloaded and extracted successfully.
DocumentsOk(i) ==
    /\ \A d \in Docs : dl[i][d] = "blob"
    /\ \A d \in Docs : ex[i][d].st = "ok"

\* ---------------------------------------------------------------- C1
\* C1: whenever an invocation has ended and one of its stages (session
\* load, download, extraction, extracted-text insert, grading call) failed,
\* its response has status 500 and carries the error message, and the
\* session row it loaded as pending is still pending without feedback.
C1_StageFailureAnswers500 ==
    \A i \in Slots :
        (pc[i] = "done" /\ StageFailed(i)) => (AnsweredError(i) /\ StillPending(i))

\* ---------------------------------------------------------------- C2
\* C2 as stated: an invocation whose three documents downloaded and
\* extracted successfully and whose grading call returned non-empty text
\* ends with the session row completed and its feedback non-empty.
C2_ValidSessionCompletes ==
    [][\A i \in Slots :
          (/\ pc[i] = "update" /\ pc'[i] = "done"
           /\ DocumentsOk(i)
           /\ gradingResults[i] # Null /\ gradingResults[i][1] # <<>>)
          => /\ sessions'[sessionId[i]].status = "completed"
             /\ sessions'[sessionId[i]].feedback # Null
             /\ sessions'[sessionId[i]].feedback[1] # <<>>]_vars

\* C2 amended: the same, for an invocation whose final session update is
\* applied: it ends with the success response, the row completed and the
\* non-empty grading text as the row's feedback.
C2_ValidSessionCompletesWhenUpdateApplied ==
    [][\A i \in Slots :
          (/\ pc[i] = "update" /\ pc'[i] = "done"
           /\ DocumentsOk(i)
           /\ gradingResults[i] # Null /\ gradingResults[i][1] # <<>>
           /\ upd'[i] = "ok")
          => /\ resp'[i].status = 200
             /\ sessions'[sessionId[i]].status = "completed"
             /\ sessions'[sessionId[i]].feedback = gradingResults[i]
             /\ sessions'[sessionId[i]].feedback[1] # <<>>]_vars

C2_Witness ==
    \E i \in Slots :
        /\ pc[i] = "done" /\ upd[i] = "ok" /\ DocumentsOk(i)
        /\ gradingResults[i] # Null /\ gradingResults[i][1] # <<>>
        /\ resp[i].status = 200
        /\ sessions[sessionId[i]].status = "completed"
        /\ sessions[sessionId[i]].feedback = gradingResults[i]

\* ---------------------------------------------------------------- C3
DownloadFailedMessages ==
    { "Failed to download question paper",
      "Failed to download grading rubric",
      "Failed to download answer sheet" }

\* C3: when a download of one of the three documents yields no data, no
\* extraction call is issued for any document, and once the downloads have
\* returned the invocation has ended with an error naming the missing
\* document category, the session still pending.
C3_DownloadFailureAborts ==
    \A i \in Slots :
        (\E d \in Docs : dl[i][d] = "null") =>
            /\ \A d \in Docs : ex[i][d].st = "idle"
            /\ (\A d \in Docs : dl[i][d] # "inflight") =>
                  /\ AnsweredError(i)
                  /\ resp[i].error[1].message \in DownloadFailedMessages
                  /\ StillPending(i)

\* ---------------------------------------------------------------- C4
\* C4: within one invocation the stages are ordered: an extraction call has
\* started only if all three downloads have returned, the grading call has
\* started only if all three extractions have returned their text, and the
\* session update has been issued only if the grading call has returned.
C4_StagesOrdered ==
    \A i \in Slots :
        /\ (\E d \in Docs : ex[i][d].st # "idle") =>
              (\A d \in Docs : dl[i][d] \in {"blob", "null"})
        /\ (gr[i] # "idle") => (\A d \in Docs : ex[i][d].st = "ok")
        /\ (upd[i] # "idle") => (gr[i] = "ok" /\ gradingResults[i] # Null)
        /\ (upd[i] = "ok") => sessions[sessionId[i]].status = "completed"

C4_Witness ==
    \E i \in Slots :
        /\ upd[i] = "ok" /\ gr[i] = "ok"
        /\ \A d \in Docs : ex[i][d].st = "ok" /\ dl[i][d] \in {"blob", "null"}
        /\ sessions[sessionId[i]].status = "completed"

\* ---------------------------------------------------------------- C5
\* C5: a failed final write to the session row is answered with an error
\* response; the success response 'Grading completed successfully' is
\* returned only when the session row has status 'completed'.
C5_UpdateFailureSurfaced ==
    \A i \in Slots :
        /\ (pc[i] = "done" /\ upd[i] = "err") => AnsweredError(i)
        /\ (pc[i] = "done" /\ resp[i].message = Some("Grading completed successfully"))
              => sessions[sessionId[i]].status = "completed"

\* ---------------------------------------------------------------- C6
\* C6: when the ExtractedText insert fails the invocation aborts with an
\* error: no grading call is issued and the session stays pending.
C6_InsertFailureAborts ==
    \A i \in Slots :
        (ins[i] = "err") =>
            /\ gr[i] = "idle"
            /\ AnsweredError(i)
            /\ StillPending(i)

\* ---------------------------------------------------------------- C7
\* C7: when the grading call errors or returns an empty text the invocation
\* fails with an error and issues no session update, the session staying
\* pending without feedback; no row is completed with an empty feedback.
C7_EmptyGradingRejected ==
    /\ \A i \in Slots :
          (gr[i] = "err" \/ (gr[i] = "ok" /\ gradingResults[i] = Some(<<>>))) =>
              /\ upd[i] = "idle"
              /\ AnsweredError(i)
              /\ StillPending(i)
    /\ \A s \in DOMAIN sessions :
          ~(sessions[s].status = "completed" /\ sessions[s].feedback = Some(<<>>))

\* ---------------------------------------------------------------- C8
\* The text the truncation law asks for.
TruncationLaw(text) ==
    IF Len(text) > 2000 THEN SubSeq(text, 1, 2000) \o <<46, 46, 46>> ELSE text

\* C8: each of the three extracted texts is embedded in the grading prompt
\* as its first 2000 characters followed by '...' when it is longer than
\* 2000, and unchanged when its length is at most 2000.
C8_TruncationLaw ==
    \A i \in Slots :
        (prompt[i] # Null) =>
            /\ prompt[i][1].questionPaper = TruncationLaw(ex[i]["question_paper"].text)
            /\ prompt[i][1].gradingRubric = TruncationLaw(ex[i]["grading_rubric"].text)
            /\ prompt[i][1].answerSheet = TruncationLaw(ex[i]["answer_sheet"].text)

\* ---------------------------------------------------------------- C9
RowsOf(s) ==
    { k \in 1..Len(extracted_texts) : extracted_texts[k].grading_session_id = s }

\* C9: every session owns at most one ExtractedText row, and a row is never
\* changed once created.
C9_OneExtractedTextPerSession ==
    /\ [](\A s \in SessionIds : Cardinality(RowsOf(s)) <= 1)
    /\ [][/\ Len(extracted_texts') >= Len(extracted_texts)
          /\ \A k \in 1..Len(extracted_texts) :
                extracted_texts'[k] = extracted_texts[k]]_vars

\* ---------------------------------------------------------------- C10
\* The invocation of instance i went through the whole pipeline.
FullPipeline(i) ==
    /\ ld[i] = "ok"
    /\ \A d \in Docs : dl[i][d] \in {"blob", "null"}
    /\ \A d \in Docs : ex[i][d].st = "ok"
    /\ ins[i] \in {"ok", "err"}
    /\ gr[i] = "ok"

\* C10: an invocation for a session that is already completed is not
\* rejected: when the select succeeds the downloads are issued whatever the
\* row's status, and when the invocation's session update is applied it has
\* run the whole pipeline and the row is completed with this invocation's
\* grading output as feedback.
C10_RerunOverwritesFeedback ==
    [][\A i \in Slots :
          /\ (pc[i] = "load" /\ ld'[i] = "ok"
              /\ sessions[sessionId[i]].status = "completed")
                => /\ pc'[i] = "download"
                   /\ \A d \in Docs : dl'[i][d] = "inflight"
          /\ (/\ pc[i] = "update" /\ upd'[i] = "ok"
              /\ session[i] # Null /\ session[i][1].status = "completed")
                => /\ FullPipeline(i)
                   /\ sessions'[sessionId[i]].status = "completed"
                   /\ sessions'[sessionId[i]].feedback = gradingResults[i]
                   /\ resp'[i].results = gradingResults[i]]_vars

C10_Witness ==
    \E i \in Slots :
        /\ pc[i] = "done" /\ upd[i] = "ok"
        /\ session[i] # Null /\ session[i][1].status = "completed"
        /\ sessions[sessionId[i]].status = "completed"
        /\ sessions[sessionId[i]].feedback = gradingResults[i]
        /\ sessions[sessionId[i]].feedback # session[i][1].feedback

\* ---------------------------------------------------------------- C11
\* C11: in every step (a client insert, a step of a process invocation, a
\* client write-back) every session row stays in the table, and a row whose
\* status is 'completed' has status 'completed' afterwards.
C11_StatusMonotonic ==
    [][\A s \in DOMAIN sessions :
          /\ s \in DOMAIN sessions'
          /\ (sessions[s].status = "completed"
                => sessions'[s].status = "completed")]_vars

C11_Witness ==
    /\ newSession # Null
    /\ wb = "ok"
    /\ \E i \in Slots : upd[i] = "ok" /\ sessionId[i] = newSession[1]
    /\ sessions[newSession[1]].status = "completed"

\* ---------------------------------------------------------------- C12
\* C12: a session row whose status is 'pending' has no feedback, and every
\* step that changes a row's feedback leaves the row at status 'completed'.
C12_NoFeedbackWhilePending ==
    /\ [](\A s \in DOMAIN sessions :
            (sessions[s].status = "pending") => (sessions[s].feedback = Null))
    /\ [][\A s \in DOMAIN sessions :
            (sessions'[s].feedback # sessions[s].feedback)
              => sessions'[s].status = "completed"]_vars

C12_Witness ==
    /\ newSession # Null
    /\ wb = "ok"
    /\ \E i \in Slots : upd[i] = "err" /\ sessionId[i] = newSession[1]
    /\ sessions[newSession[1]].status = "completed"
    /\ sessions[newSession[1]].feedback = gradingResponse[1].results

\* ---------------------------------------------------------------- C13
\* No stage of instance i has been started: no select, download, extraction,
\* insert, grading call or update.
NoSessionWork(i) ==
    /\ ld[i] = "idle"
    /\ \A d \in Docs : dl[i][d] = "idle" /\ ex[i][d].st = "idle"
    /\ ins[i] = "idle"
    /\ gr[i] = "idle"
    /\ upd[i] = "idle"

\* C13: while one of the required environment variables (store endpoint,
\* store key, the key shared by the OCR and the generation service) is
\* missing, no invocation starts any session work and no ExtractedText row
\* is written, and a request that carries a session id is answered with the
\* configuration error.
C13_ConfigurationErrorFirst ==
    (\E v \in EnvVars : v \notin env) =>
        /\ extracted_texts = <<>>
        /\ \A s \in DOMAIN sessions : sessions[s] = NewSessionRow
        /\ \A i \in Slots :
              /\ NoSessionWork(i)
              /\ (pc[i] = "done" /\ sessionId[i] # 0) =>
                    resp[i] = ErrorResponse("Missing required environment variables", 0)

C13_Witness ==
    /\ "GOOGLE_API_KEY" \notin env
    /\ \E i \in Slots :
          /\ pc[i] = "done" /\ sessionId[i] \in SessionIds
          /\ resp[i].status = 500
          /\ NoSessionWork(i)

\* ---------------------------------------------------------------- C14
\* C14: an invocation whose select found no row has ended with the 'Session
\* not found' error and has issued no download, extraction, insert, grading
\* call or update; the step in which the select returns leaves every
\* session row and every ExtractedText row as it was.
C14_SessionNotFound ==
    /\ [](\A i \in Slots :
            (ld[i] = "err") =>
                /\ pc[i] = "done"
                /\ resp[i] = ErrorResponse("Session not found", 0)
                /\ \A d \in Docs : dl[i][d] = "idle" /\ ex[i][d].st = "idle"
                /\ ins[i] = "idle" /\ gr[i] = "idle" /\ upd[i] = "idle")
    /\ [][\A i \in Slots :
            (pc[i] = "load" /\ pc'[i] # "load"
             /\ sessionId[i] \notin DOMAIN sessions)
              => /\ ld'[i] = "err"
                 /\ sessions' = sessions
                 /\ extracted_texts' = extracted_texts]_vars

C14_Witness ==
    \E i \in Slots :
        /\ sessionId[i] = NumSessions + 1
        /\ ld[i] = "err" /\ pc[i] = "done"
        /\ resp[i].status = 500
        /\ extracted_texts # <<>>

C16_ExtractionJoin ==
    /\ [](\A i \in Slots :
            (\E d \in Docs : ex[i][d].st = "err") =>
                /\ AnsweredError(i)
                /\ \E d \in Docs :
                      /\ ex[i][d].st = "err"
                      /\ resp[i].error = Some([message |-> ex[i][d].msg,
                                                code |-> ex[i][d].code])
                /\ ins[i] = "idle" /\ gr[i] = "idle" /\ upd[i] = "idle"
                /\ StillPending(i))
    /\ [][\A i \in Slots :
            (pc[i] = "extract" /\ \E d \in Docs : ex'[i][d].st = "err")
              => /\ sessions' = sessions
                 /\ extracted_texts' = extracted_texts]_vars

C16_Witness ==
    \E i \in Slots, d \in Docs, e \in Docs :
        /\ ex[i][d].st = "err" /\ ex[i][e].st = "ok"
        /\ pc[i] = "done" /\ resp[i].status = 500
        /\ ins[i] = "idle"
        /\ session[i] # Null /\ session[i][1].status = "pending"
        /\ sessions[sessionId[i]].status = "pending"

C18_MissingFileRejected ==
    [][(submitted' # submitted /\ submitted' = Some(FALSE))
          => /\ cpc' = "idle"
             /\ UNCHANGED <<user, up, newSession, ninv, nreq, sessions>>
             /\ toasts' = Some("Missing files")]_vars

\* ---------------------------------------------------------------- C19
\* C19: a grading_sessions row is inserted only while all three uploads of
\* the submission have returned a path; the step in which an upload fails
\* shows the error notification and neither inserts a row nor invokes the
\* function, and the submission has then ended without a session.
C19_InsertAfterAllUploads ==
    /\ []((\E d \in Docs : up[d] \in {"error", "nopath"})
            => /\ cpc = "idle"
               /\ toasts = Some("Error")
               /\ newSession = Null
               /\ gradingResponse = Null
               /\ wb = "idle")
    /\ [](cpc \in {"insert", "invoke", "writeback"} \/ newSession # Null
            => \A d \in Docs : up[d] = "path")
    /\ [][(Len(sessions') > Len(sessions))
            => (cpc = "insert" /\ \A d \in Docs : up[d] = "path")]_vars
    /\ [][(cpc = "upload" /\ \E d \in Docs : up'[d] \in {"error", "nopath"})
            => /\ toasts' = Some("Error")
               /\ UNCHANGED <<sessions, ninv, nreq>>]_vars

C19_Witness ==
    /\ cpc = "idle"
    /\ \E d \in Docs, e \in Docs : up[d] = "path" /\ up[e] = "error"
    /\ toasts = Some("Error")
    /\ sessions = <<>>
    /\ ninv = 0

\* ---------------------------------------------------------------- C20
\* C20: the user lookup comes first: while it is pending no upload has been
\* started, and uploads, the session insert and the invocation happen only
\* with a user; when the lookup yields no user the submission ends in that
\* step with the redirect to /auth and without upload, row or invocation.
C20_AuthFirst ==
    /\ []((cpc = "auth") => (user = Null /\ up = IdleCall /\ newSession = Null))
    /\ []((\/ cpc \in {"upload", "insert", "invoke", "writeback"}
           \/ \E d \in Docs : up[d] # "idle"
           \/ newSession # Null)
            => user # Null)
    /\ [][(Len(sessions') > Len(sessions) \/ ninv' > ninv) => user # Null]_vars
    /\ [][(cpc = "auth" /\ cpc' # "auth" /\ user' = Null)
            => /\ location' = "/auth"
               /\ cpc' = "idle"
               /\ up' = IdleCall
               /\ UNCHANGED <<sessions, ninv, nreq>>]_vars

C20_Witness ==
    /\ submitted = Some(TRUE)
    /\ location = "/auth"
    /\ cpc = "idle"
    /\ user = Null
    /\ up = IdleCall
    /\ sessions = <<>>
    /\ ninv = 0

\* ---------------------------------------------------------------- C21
\* C21: the step that ends a submission empties the form when the
\* submission succeeded (the success notification is shown) and leaves the
\* three files in the form when it failed or was aborted.
C21_ResetOnlyOnSuccess ==
    [][(cpc # "idle" /\ cpc' = "idle") =>
          IF cpc \in {"invoke", "writeback"}
             /\ toasts' = Some("Grading completed")
            THEN form' = [d \in Docs |-> FALSE]
          ELSE form' = form /\ \A d \in Docs : form'[d]]_vars

\* ---------------------------------------------------------------- C22
\* The response the client's invocation received carries feedback text.
CarriesFeedback(r) ==
    r.status = 200 /\ r.results # Null /\ r.results[1] # <<>>

C23_PreflightNoOp ==
    /\ [](\A i \in Slots :
            (reqMethod[i] = "OPTIONS") =>
                /\ pc[i] = "done"
                /\ resp[i] = [status |-> 200, headers |-> corsHeaders,
                              message |-> Null, results |-> Null,
                              error |-> Null]
                /\ resp[i].headers.AccessControlAllowOrigin = "*"
                /\ sessionId[i] = 0
                /\ session[i] = Null
                /\ NoSessionWork(i)
                /\ issued[i] = NoCalls)
    /\ [][\A i \in Slots :
            (reqNo'[i] # reqNo[i] /\ reqMethod'[i] = "OPTIONS")
              => /\ sessions' = sessions
                 /\ extracted_texts' = extracted_texts]_vars

C23_Witness ==
    \E i \in Slots :
        /\ reqMethod[i] = "OPTIONS"
        /\ reqNo[i] = 2
        /\ pc[i] = "done"
        /\ extracted_texts # <<>>
        /\ \E s \in DOMAIN sessions : sessions[s].status = "completed"

\* ---------------------------------------------------------------- C24
\* Instance i takes a step: one of its calls is issued or returns.
StepOf(i) ==
    <<pc[i], ld[i], dl[i], ex[i], ins[i], gr[i], upd[i]>>' #
        <<pc[i], ld[i], dl[i], ex[i], ins[i], gr[i], upd[i]>>

\* The texts of ExtractedText row r are texts of the documents of session s.
TextsOf(r, s) ==
    /\ r.question_paper_text \in {<<>>, DocumentText(s, "question_paper")}
    /\ r.grading_rubric_text \in {<<>>, DocumentText(s, "grading_rubric")}
    /\ r.answer_sheet_text \in {<<>>, DocumentText(s, "answer_sheet")}

\* C24: whatever the interleaving of two invocations and whether they
\* succeed or fail, a step of the invocation for session A leaves every
\* other session row and the ExtractedText rows of every other session as
\* they were; the row an invocation loads is the row of its own session id;
\* and every ExtractedText row holds texts of the documents of the session
\* it is keyed by.
C24_SessionsIndependent ==
    /\ [][\A i \in Pair :
            StepOf(i) =>
                \A s \in DOMAIN sessions :
                    (s # sessionId'[i]) =>
                        /\ sessions'[s] = sessions[s]
                        /\ RowsOf(s)' = RowsOf(s)
                        /\ \A k \in RowsOf(s) :
                              extracted_texts'[k] = extracted_texts[k]]_vars
    /\ [][\A i \in Pair :
            (pc[i] = "load" /\ ld'[i] = "ok") =>
                session'[i] = Some(sessions[sessionId[i]])]_vars
    /\ [](\A k \in 1..Len(extracted_texts) :
            TextsOf(extracted_texts[k], extracted_texts[k].grading_session_id))

C24_Witness ==
    \E i \in Pair, j \in Pair :
        /\ sessionId[i] \in SessionIds /\ sessionId[j] \in SessionIds
        /\ sessionId[i] # sessionId[j]
        /\ pc[i] = "done" /\ upd[i] = "ok"
        /\ sessions[sessionId[i]].status = "completed"
        /\ pc[j] = "update"
        /\ sessions[sessionId[j]] = NewSessionRow
        /\ Len(extracted_texts) = 2
        /\ extracted_texts[1].grading_session_id = sessionId[j]

\* ---------------------------------------------------------------- C25
\* C25: within one invocation each document is downloaded at most once,
\* extractTextFromImage is called at most once per document and the
\* generation call is made at most once; and once a stage has failed (the
\* select, a download, an extraction, the insert, the generation call) the
\* invocation has ended and none of the later stages has been started.
C25_NoRetryFirstErrorAborts ==
    \A i \in Slots :
        /\ \A d \in Docs : issued[i].download[d] <= 1 /\ issued[i].extract[d] <= 1
        /\ issued[i].generate <= 1
        /\ (ld[i] = "err") =>
              (\A d \in Docs : issued[i].download[d] = 0)
        /\ (\E d \in Docs : dl[i][d] = "null") =>
              (\A d \in Docs : issued[i].extract[d] = 0)
        /\ (\E d \in Docs : ex[i][d].st = "err") =>
              (ins[i] = "idle" /\ issued[i].generate = 0)
        /\ (ins[i] = "err") => (issued[i].generate = 0 /\ upd[i] = "idle")
        /\ (gr[i] = "err") => (upd[i] = "idle")
        /\ StageFailed(i) => pc[i] = "done"

\* ---------------------------------------------------------------- C26
\* C26: an invocation is answered with an error only when one of its own
\* calls failed, never because of the other invocation; each applied
\* session update leaves the row completed with the updating invocation's
\* own grading text, so the update applied last decides the stored value;
\* each success response carries the invocation's own grading text; and
\* when two invocations for the same session have both succeeded the row
\* is completed and holds the grading text of exactly one of them.
C26_LastUpdateWins ==
    /\ [](\A i \in Pair :
            (pc[i] = "done" /\ resp[i].status # 200) =>
                (ld[i] = "err" \/ gr[i] = "err"
                 \/ \E d \in Docs : ex[i][d].st = "err"))
    /\ [][\A i \in Pair :
            (pc[i] = "update" /\ upd'[i] = "ok") =>
                sessions'[sessionId[i]] =
                    [status |-> "completed", feedback |-> gradingResults[i]]]_vars
    /\ [](\A i \in Pair :
            (pc[i] = "done" /\ resp[i].status = 200) =>
                resp[i].results = gradingResults[i])
    /\ [](\A i \in Pair, j \in Pair :
            (/\ i # j /\ sessionId[i] = sessionId[j]
             /\ pc[i] = "done" /\ upd[i] = "ok"
             /\ pc[j] = "done" /\ upd[j] = "ok")
              => /\ resp[i].status = 200 /\ resp[j].status = 200
                 /\ sessions[sessionId[i]].status = "completed"
                 /\ gradingResults[i] # gradingResults[j]
                 /\ sessions[sessionId[i]].feedback
                       \in {gradingResults[i], gradingResults[j]})

C26_Witness ==
    \E i \in Pair, j \in Pair :
        /\ i # j /\ sessionId[i] = sessionId[j]
        /\ pc[i] = "done" /\ upd[i] = "ok" /\ resp[i].status = 200
        /\ pc[j] = "done" /\ upd[j] = "ok" /\ resp[j].status = 200
        /\ reqNo[i] < reqNo[j]
        /\ sessions[sessionId[i]].feedback = resp[i].results
        /\ resp[j].results # sessions[sessionId[j]].feedback

CallReturns(i) ==
    \/ ld[i] = "inflight" /\ ld'[i] # "inflight"
    \/ \E d \in Docs : dl[i][d] = "inflight" /\ dl'[i][d] # "inflight"
    \/ \E d \in Docs : ex[i][d].st = "inflight" /\ ex'[i][d].st # "inflight"
    \/ ins[i] = "inflight" /\ ins'[i] # "inflight"
    \/ gr[i] = "inflight" /\ gr'[i] # "inflight"
    \/ upd[i] = "inflight" /\ upd'[i] # "inflight"

\* C28: when every call in flight eventually returns, an instance that is
\* awaiting a call eventually ends; a request other than OPTIONS that has
\* ended was answered either with the success response or with a status-500
\* error response, the response being set in the one step that ends the
\* request; and an instance moves on from an await only in a step in which
\* one of its calls returns, so it stays there for as long as none does.
C28_EveryRequestAnswered ==
    /\ \A i \in Slots : (pc[i] \notin {"idle", "done"}) ~> (pc[i] = "done")
    /\ [](\A i \in Slots :
            (pc[i] = "done" /\ reqMethod[i] = "POST") =>
                \/ /\ resp[i].status = 200
                   /\ resp[i].message = Some("Grading completed successfully")
                   /\ resp[i].results = gradingResults[i]
                   /\ resp[i].error = Null
                \/ /\ resp[i].status = 500
                   /\ resp[i].error # Null
                   /\ resp[i].results = Null)
    /\ [](\A i \in Slots :
            (pc[i] \notin {"idle", "done"}) => resp[i] = NoResponse)
    /\ [][\A i \in Slots :
            (resp'[i] # resp[i]) =>
                (pc'[i] = "done" \/ reqNo'[i] # reqNo[i])]_vars
    /\ [][\A i \in Slots :
            (pc[i] \notin {"idle", "done"} /\ pc'[i] # pc[i])
              => CallReturns(i)]_vars

C28_Witness ==
    \E i \in Slots :
        /\ pc[i] = "done" /\ reqMethod[i] = "POST" /\ reqNo[i] = 2
        /\ resp[i].status = 500
        /\ gr[i] = "err"
        /\ \E s \in DOMAIN sessions : sessions[s].status = "completed"

\* ---------------------------------------------------------------- C29
\* C29: no step removes a blob from storage; the step in which an upload or
\* the session insert fails ends the submission with storage as it was and
\* without a new row; every row names stored blobs only.  (The state with
\* stored blobs that no row names is C29_Witness.)
C29_UploadsNotAtomic ==
    /\ [][\A b \in storage : b \in storage']_vars
    /\ [][(\/ cpc = "upload" /\ \E d \in Docs : up'[d] \in {"error", "nopath"}
           \/ cpc = "insert" /\ cpc' = "idle")
            => /\ storage' = storage
               /\ sessions' = sessions
               /\ paths' = paths
               /\ cpc' = "idle"
               /\ toasts' = Some("Error")]_vars
    /\ [](\A s \in DOMAIN paths : \A b \in paths[s] : b \in storage)

C29_Witness ==
    /\ cpc = "idle"
    /\ toasts = Some("Error")
    /\ \E d \in Docs, e \in Docs :
          /\ up[d] = "path" /\ up[e] = "error"
          /\ <<nsub, d>> \in storage
          /\ \A s \in DOMAIN paths : <<nsub, d>> \notin paths[s]

\* ---------------------------------------------------------------- C30
\* C30: for every document, the FileUpload widget shows a file exactly when
\* the form holds one.
C30_WidgetShowsFormFile ==
    \A d \in Docs : widget[d] <=> form[d]

====
